---- MODULE Spec2Model ----
(***************************************************************************)
(* A model of core/models.py of brasil.io: the query builder of            *)
(* DynamicModelQuerySet (search, apply_filters, apply_ordering,            *)
(* filter_by_querystring, count), the physical schema operations of        *)
(* DynamicModelMixin (create_table, create_indexes, delete_table) and the  *)
(* synthesis cache of Table.get_model (DYNAMIC_MODEL_REGISTRY).            *)
(*                                                                         *)
(* Text is modelled as a sequence of one-character strings, so that        *)
(* strip(), lower(), replace("-", ""), split(",") and split() are          *)
(* computed on characters, as Python computes them.  The two reserved      *)
(* querystring keys are single-symbol sequences.                           *)
(***************************************************************************)
EXTENDS Integers, Sequences, FiniteSets, TLC

(***************************************************************************)
(* Bounds of the model.                                                    *)
(***************************************************************************)
\* entries of a requested order-by list
MaxEntries == 2
\* a query object is used as a receiver while its ordering is this short
MaxOrdering == 1

(***************************************************************************)
(* Text helpers (Python str methods).                                      *)
(***************************************************************************)
IsSpace(c) == c = " "

\* str.lower(), one character
LowerChar(c) == IF c = "N" THEN "n" ELSE IF c = "A" THEN "a" ELSE c

\* str.lower()
Lower(s) == [i \in 1..Len(s) |-> LowerChar(s[i])]

RECURSIVE LStrip(_)
LStrip(s) == IF s # <<>> /\ IsSpace(Head(s)) THEN LStrip(Tail(s)) ELSE s

RECURSIVE RStrip(_)
RStrip(s) ==
    IF s # <<>> /\ IsSpace(s[Len(s)]) THEN RStrip(SubSeq(s, 1, Len(s) - 1)) ELSE s

\* str.strip()
Strip(s) == RStrip(LStrip(s))

IsDash(c) == c = "-"
NotDash(c) == ~IsDash(c)

\* str.replace("-", ""): every dash goes, wherever it stands
RemoveDashes(s) == SelectSeq(s, NotDash)

\* str.split(","): the pieces between commas, empty pieces kept
RECURSIVE SplitComma(_, _)
SplitComma(s, cur) ==
    IF s = <<>> THEN <<cur>>
    ELSE IF Head(s) = "," THEN <<cur>> \o SplitComma(Tail(s), <<>>)
    ELSE SplitComma(Tail(s), Append(cur, Head(s)))

\* str.split(): the maximal runs of non-whitespace characters
RECURSIVE SplitWhitespace(_, _)
SplitWhitespace(s, cur) ==
    IF s = <<>> THEN (IF cur = <<>> THEN <<>> ELSE <<cur>>)
    ELSE IF IsSpace(Head(s))
         THEN (IF cur = <<>> THEN <<>> ELSE <<cur>>) \o SplitWhitespace(Tail(s), <<>>)
    ELSE SplitWhitespace(Tail(s), Append(cur, Head(s)))

\* ",".join(entries)
RECURSIVE JoinComma(_)
JoinComma(es) ==
    IF es = <<>> THEN <<>>
    ELSE IF Len(es) = 1 THEN es[1]
    ELSE es[1] \o <<",">> \o JoinComma(Tail(es))

\* the set of elements of a sequence
Range(s) == {s[i] : i \in 1..Len(s)}

\* a value is truthy in Python when it is not empty
Truthy(s) == s # <<>>

Max(S) == CHOOSE x \in S : \A y \in S : y <= x
Min(S) == CHOOSE x \in S : \A y \in S : x <= y

\* all sequences over S of length at most n
SeqsUpTo(S, n) == UNION {[1..k -> S] : k \in 0..n}

(***************************************************************************)
(* Names used by the model.                                                *)
(***************************************************************************)
\* the reserved querystring keys "order-by" and "search"
OrderByKey == <<"order-by">>
SearchKey == <<"search">>

\* the ordering directive search() adds: "-search_rank"
SearchRankDesc == <<"-", "search_rank">>

\* field names: "na" stands for name, "a" for age, "Na" is a mixed-case column;
\* a column may also be called "search", like the reserved key
FName == <<"n", "a">>
FAge == <<"a">>
FMixed == <<"N", "a">>
Desc(f) == <<"-">> \o f

(***************************************************************************)
(* Table rows (lines 346-360) the record types are synthesized from, and   *)
(* Model.extra as Table.get_model sets it (lines 411-413, 436-440).        *)
(***************************************************************************)
TableMetas ==
    { [fields |-> <<FName, FAge>>,
       ordering |-> <<FName>>, filtering |-> <<FName, FAge>>, search |-> <<FName>>],
      [fields |-> <<FMixed, FAge>>,
       ordering |-> <<Desc(FAge)>>, filtering |-> <<FMixed>>, search |-> <<>>],
      [fields |-> <<FName, SearchKey>>,
       ordering |-> <<>>, filtering |-> <<FName, SearchKey>>,
       search |-> <<FName>>] }

ModelExtra(meta) ==
    [filtering |-> meta.filtering, ordering |-> meta.ordering, search |-> meta.search]

RecordTypes == { ModelExtra(m) : m \in TableMetas }

(***************************************************************************)
(* Query objects: the state of a QuerySet that the code reads and writes.  *)
(*   ordering     query.order_by, a sequence of directives                 *)
(*   searches     the search clauses of query.where, each a set of tokens  *)
(*   filters      the filter clauses of query.where                        *)
(*   annotations  the names annotated on the query                         *)
(*   count        the memoized _count: <<>> when unset, <<n>> when set     *)
(***************************************************************************)
FreshQuery ==
    [ordering |-> <<>>, searches |-> {}, filters |-> {}, annotations |-> {},
     count |-> <<>>]

\* QuerySet._clone(): a new instance; _count is an attribute of the old one only
Clone(q) == [q EXCEPT !.count = <<>>]

\* bool(query.where): the WHERE node has a child
HasWhere(q) == q.searches # {} \/ q.filters # {}

(***************************************************************************)
(* DynamicModelQuerySet.search (lines 174-192).  Returns the query and     *)
(* whether it is a new object.                                             *)
(***************************************************************************)
SearchTokens(search_query) == Range(SplitWhitespace(search_query, <<>>))

Search(q, search_query, extra) ==
    IF Truthy(search_query) /\ Truthy(extra.search)
    THEN [q |-> [Clone(q) EXCEPT
                   !.annotations = @ \cup {"search_rank"},
                   !.searches = @ \cup {SearchTokens(search_query)},
                   !.ordering = @ \o <<SearchRankDesc>>],
          isnew |-> TRUE]
    ELSE [q |-> q, isnew |-> FALSE]

(***************************************************************************)
(* core.filters.DynamicModelFilterProcessor: key syntax field__operator,   *)
(* fields outside the allow-list and unknown operators are dropped.        *)
(***************************************************************************)
OpExact == <<>>
OpGte == <<"g", "t", "e">>
OpLt == <<"l", "t">>
SupportedOps == {OpExact, OpGte, OpLt}

SepAt(k, i) == i + 1 <= Len(k) /\ k[i] = "_" /\ k[i + 1] = "_"

ParseFilterKey(k) ==
    IF \E i \in 1..Len(k) : SepAt(k, i)
    THEN LET i == CHOOSE j \in 1..Len(k) :
                    SepAt(k, j) /\ \A h \in 1..(j - 1) : ~SepAt(k, h)
         IN [field |-> SubSeq(k, 1, i - 1), op |-> SubSeq(k, i + 2, Len(k))]
    ELSE [field |-> k, op |-> OpExact]

ProcessorFilters(filtering, allowed) ==
    { [field |-> ParseFilterKey(k).field, op |-> ParseFilterKey(k).op,
       value |-> filtering[k]] :
        k \in { x \in DOMAIN filtering :
                  /\ ParseFilterKey(x).field \in Range(allowed)
                  /\ ParseFilterKey(x).op \in SupportedOps } }

(***************************************************************************)
(* DynamicModelQuerySet.apply_filters (lines 194-197): self.filter(...)    *)
(* always returns a new object.                                            *)
(***************************************************************************)
ApplyFilters(q, filtering, extra) ==
    [Clone(q) EXCEPT !.filters = @ \cup ProcessorFilters(filtering, extra.filtering)]

(***************************************************************************)
(* DynamicModelQuerySet.apply_ordering (lines 199-213).                    *)
(***************************************************************************)
\* clean_allowed, line 204
CleanAllowed(extra) ==
    { Lower(Strip(RemoveDashes(f))) : f \in Range(extra.ordering \o extra.filtering) }

\* ordering_query, line 205
OrderingQuery(query, extra) ==
    LET Allowed(f) == RemoveDashes(f) \in CleanAllowed(extra)
    IN SelectSeq(query, Allowed)

\* the directives add_ordering receives, lines 208-211
OrderingAdded(query, extra) ==
    IF Truthy(OrderingQuery(query, extra)) THEN OrderingQuery(query, extra)
    ELSE extra.ordering

\* apply_ordering written with qs.order_by(...), which replaces the ordering
ApplyOrdering_Overwrite(q, query, extra) ==
    [q EXCEPT !.ordering = OrderingAdded(query, extra)]

\* qs = self; qs.query.add_ordering(...): the receiver itself is changed
ApplyOrdering(q, query, extra) ==
    [q EXCEPT !.ordering = @ \o OrderingAdded(query, extra)]

(***************************************************************************)
(* DynamicModelQuerySet.filter_by_querystring (lines 215-228).  The        *)
(* querystring is a QueryDict with one value per key.                      *)
(***************************************************************************)
\* dict.pop(key, [""])[0]
Pop(querystring, key) ==
    IF key \in DOMAIN querystring THEN querystring[key] ELSE <<>>

\* line 219
OrderByList(raw) ==
    LET pieces == SplitComma(raw, <<>>)
        Kept(f) == Truthy(Strip(f))
        kept == SelectSeq(pieces, Kept)
    IN [i \in 1..Len(kept) |-> Lower(Strip(kept[i]))]

\* line 221 written with "if value.strip()"
FilterCandidates_Stripped(querystring) ==
    { k \in DOMAIN querystring \ {OrderByKey, SearchKey} :
        Truthy(Strip(querystring[k])) }

\* line 221: the keys left after the two pops whose value is truthy
FilterCandidates(querystring) ==
    { k \in DOMAIN querystring \ {OrderByKey, SearchKey} : Truthy(querystring[k]) }

\* the whole call: the returned query, whether it is the receiver itself,
\* and what was handed to apply_filters
FilterByQuerystringResult(q, querystring, extra) ==
    LET order_by == OrderByList(Pop(querystring, OrderByKey))
        search_query == Pop(querystring, SearchKey)
        keys == FilterCandidates(querystring)
        query == [k \in keys |-> querystring[k]]
        s == IF Truthy(search_query) THEN Search(q, search_query, extra)
             ELSE [q |-> q, isnew |-> FALSE]
        f == IF keys # {} THEN [q |-> ApplyFilters(s.q, query, extra), isnew |-> TRUE]
             ELSE s
    IN [q |-> ApplyOrdering(f.q, order_by, extra),
        isself |-> ~f.isnew,
        invoked |-> keys # {},
        keys |-> keys]

(***************************************************************************)
(* The state.                                                              *)
(***************************************************************************)
VARIABLES
    \* ---- query builder ----
    extra,         \* Model.extra of the record type the queries are about
    qs,            \* the query object filter_by_querystring is called on
    result,        \* the query object the last call returned
    resultIsSelf,  \* the returned object is the receiver itself
    pc,            \* "idle", or "returned" while a call's result is in use
    request,       \* the querystring of the last call
    pre,           \* the receiver as it was when the last call began
    delegated,     \* what the last call handed to apply_filters
    \* ---- row counting ----
    rowsMatching,  \* rows of the table that satisfy the query's predicate
    rowsOther,     \* the other rows of the table
    reltuples,     \* pg_class.reltuples of the table, the planner's estimate
    countLog,      \* the count() calls made on result, oldest first
    \* ---- physical schema ----
    metaIndexes,   \* cls._meta.indexes
    tableExists,   \* the physical table exists
    dbIndexes,     \* names of the indexes that exist on the physical table
    schemaLast,    \* the last schema operation and its outcome
    \* ---- synthesis cache ----
    tableMeta,     \* Table rows by id: ordering, filtering, search
    registry,      \* DYNAMIC_MODEL_REGISTRY: Table.id -> <<>> or <<Model>>
    nextUid,       \* identity of the next class object type() creates
    cacheLog,      \* the completed get_model calls, oldest first
    wpc,           \* each worker's position inside get_model
    wcall,         \* each worker's current call: table id and cache flag
    wmodel         \* each worker's Model, once built or found

queryVars == <<extra, qs, result, resultIsSelf, pc, request, pre, delegated>>
countVars == <<rowsMatching, rowsOther, reltuples, countLog>>
schemaVars == <<metaIndexes, tableExists, dbIndexes, schemaLast>>
cacheVars == <<tableMeta, registry, nextUid, cacheLog, wpc, wcall, wmodel>>
vars == <<queryVars, countVars, schemaVars, cacheVars>>

(***************************************************************************)
(* Inputs of the query builder.                                            *)
(***************************************************************************)
\* the pieces a requested order-by is made of: "-na", "n-a", " Na", "n", "a", ""
RawEntries ==
    { Desc(FName), <<"n", "-", "a">>, <<" ", "N", "a">>, <<"n">>, FAge, <<>> }

OrderByRaws == { JoinComma(es) : es \in SeqsUpTo(RawEntries, MaxEntries) }

\* search values: "", " ", "x", "x y", "y x", "x x"
SearchRaws ==
    { <<>>, <<" ">>, <<"x">>, <<"x", " ", "y">>, <<"y", " ", "x">>,
      <<"x", " ", "x">> }

\* filter keys "a__gte", "na", "n", "a__x"; values "", " ", "18"
KAgeGte == FAge \o <<"_", "_">> \o OpGte
KBadOp == FAge \o <<"_", "_", "x">>
FilterKeys == { KAgeGte, FName, <<"n">> }
FilterValues == { <<>>, <<" ">>, <<"1", "8">> }
FilterMaps == UNION { [D -> FilterValues] : D \in SUBSET FilterKeys }
FewFilterMaps ==
    { <<>>, [k \in {KAgeGte} |-> <<"1", "8">>], [k \in {KBadOp} |-> <<"1", "8">>] }

\* a QueryDict: the reserved keys when given, and the filter keys
MkQuery(hasOrder, ob, hasSearch, se, fm) ==
    LET D == (IF hasOrder THEN {OrderByKey} ELSE {})
             \cup (IF hasSearch THEN {SearchKey} ELSE {}) \cup DOMAIN fm
    IN [k \in D |-> IF k = OrderByKey THEN ob
                    ELSE IF k = SearchKey THEN se ELSE fm[k]]

QueryStrings ==
    { MkQuery(TRUE, ob, hs, <<"x">>, fm) :
        ob \in OrderByRaws, hs \in BOOLEAN, fm \in FewFilterMaps }
    \cup { MkQuery(ho, Desc(FName), hs, <<"x">>, fm) :
        ho \in BOOLEAN, hs \in BOOLEAN, fm \in FilterMaps }
    \cup { MkQuery(ho, Desc(FName), TRUE, se, fm) :
        ho \in BOOLEAN, se \in SearchRaws, fm \in FewFilterMaps }

NoRequest == <<>>
NoDelegation == [invoked |-> FALSE, keys |-> {}]

(***************************************************************************)
(* Actions of the query builder.                                           *)
(***************************************************************************)
\* queryset.filter_by_querystring(querystring), lines 215-228
FilterByQuerystring(querystring) ==
    /\ pc = "idle"
    /\ Len(qs.ordering) <= MaxOrdering
    /\ LET r == FilterByQuerystringResult(qs, querystring, extra)
       IN /\ result' = r.q
          /\ resultIsSelf' = r.isself
          /\ qs' = IF r.isself THEN r.q ELSE qs
          /\ delegated' = [invoked |-> r.invoked, keys |-> r.keys]
    /\ pre' = qs
    /\ request' = querystring
    /\ pc' = "returned"
    /\ countLog' = <<>>
    /\ UNCHANGED <<extra, rowsMatching, rowsOther, reltuples, schemaVars, cacheVars>>

\* the caller is done with the result; the receiver lives on
Release ==
    /\ pc = "returned"
    /\ pc' = "idle"
    /\ result' = FreshQuery
    /\ resultIsSelf' = FALSE
    /\ pre' = FreshQuery
    /\ request' = NoRequest
    /\ delegated' = NoDelegation
    /\ countLog' = <<>>
    /\ UNCHANGED <<extra, qs, rowsMatching, rowsOther, reltuples, schemaVars, cacheVars>>

\* Model.objects.all(): a new query object
NewQuerySet ==
    /\ pc = "idle"
    /\ qs # FreshQuery
    /\ qs' = FreshQuery
    /\ UNCHANGED <<extra, result, resultIsSelf, pc, request, pre, delegated,
                   countVars, schemaVars, cacheVars>>

(***************************************************************************)
(* Row counting: DynamicModelQuerySet.count (lines 230-247).               *)
(***************************************************************************)
\* rows of the table
MaxRows == 2
\* count() calls on one query object
MaxCounts == 3

\* super().count(): SELECT COUNT(*) under the query's predicate
ExactCount(q) == IF HasWhere(q) THEN rowsMatching ELSE rowsMatching + rowsOther

\* line 231 written with "if self._count:", which takes 0 for unset
IsMemoized_Truthy(q) == q.count # <<>> /\ q.count[1] # 0

\* line 231: getattr(self, "_count", None) is not None
IsMemoized(q) == q.count # <<>>

\* count() without the except clause of lines 242-243
CountResult_NoFallback(q, statsFail) ==
    IF IsMemoized(q)
    THEN [ret |-> q.count[1], stats |-> FALSE, failed |-> FALSE, exact |-> FALSE,
          outcome |-> "returned"]
    ELSE IF ~HasWhere(q)
    THEN [ret |-> reltuples, stats |-> TRUE, failed |-> statsFail, exact |-> FALSE,
          outcome |-> IF statsFail THEN "raised" ELSE "returned"]
    ELSE [ret |-> ExactCount(q), stats |-> FALSE, failed |-> FALSE, exact |-> TRUE,
          outcome |-> "returned"]

\* the value count() returns and the data accesses it makes; statsFail says
\* whether reading pg_class raises
CountResult(q, statsFail) ==
    IF IsMemoized(q)
    THEN [ret |-> q.count[1], stats |-> FALSE, failed |-> FALSE, exact |-> FALSE,
          outcome |-> "returned"]
    ELSE IF ~HasWhere(q)
    THEN IF ~statsFail
         THEN [ret |-> reltuples, stats |-> TRUE, failed |-> FALSE, exact |-> FALSE,
               outcome |-> "returned"]
         ELSE [ret |-> ExactCount(q), stats |-> TRUE, failed |-> TRUE, exact |-> TRUE,
               outcome |-> "returned"]
    ELSE [ret |-> ExactCount(q), stats |-> FALSE, failed |-> FALSE, exact |-> TRUE,
          outcome |-> "returned"]

\* result.count()
Count(statsFail) ==
    /\ pc = "returned"
    /\ Len(countLog) < MaxCounts
    /\ LET r == CountResult(result, statsFail)
           counted == IF r.outcome = "returned"
                      THEN [result EXCEPT !.count = <<r.ret>>] ELSE result
       IN /\ result' = counted
          /\ qs' = IF resultIsSelf THEN counted ELSE qs
          /\ countLog' = Append(countLog, r)
    /\ UNCHANGED <<extra, resultIsSelf, pc, request, pre, delegated,
                   rowsMatching, rowsOther, reltuples, schemaVars, cacheVars>>

\* another client inserts a row
InsertRow(matching) ==
    /\ rowsMatching + rowsOther < MaxRows
    /\ rowsMatching' = IF matching THEN rowsMatching + 1 ELSE rowsMatching
    /\ rowsOther' = IF matching THEN rowsOther ELSE rowsOther + 1
    /\ UNCHANGED <<queryVars, reltuples, countLog, schemaVars, cacheVars>>

\* another client deletes a row
DeleteRow(matching) ==
    /\ IF matching THEN rowsMatching > 0 ELSE rowsOther > 0
    /\ rowsMatching' = IF matching THEN rowsMatching - 1 ELSE rowsMatching
    /\ rowsOther' = IF matching THEN rowsOther ELSE rowsOther - 1
    /\ UNCHANGED <<queryVars, reltuples, countLog, schemaVars, cacheVars>>

\* DynamicModelMixin.analyse_table (lines 112-115): VACUUM ANALYSE refreshes
\* the planner's statistics
AnalyseTable ==
    /\ reltuples # rowsMatching + rowsOther
    /\ reltuples' = rowsMatching + rowsOther
    /\ UNCHANGED <<queryVars, rowsMatching, rowsOther, countLog, schemaVars, cacheVars>>

(***************************************************************************)
(* Physical schema: DynamicModelMixin.create_table, create_indexes and     *)
(* delete_table (lines 96-110, 134-170).                                   *)
(***************************************************************************)
\* declared indexes of a record type
MaxIndexes == 2
\* schema operations remembered in schemaLast.trail
MaxTrail == 3

\* index objects by class: django Index, postgres GinIndex, postgres BrinIndex
IndexObjects ==
    { [name |-> "idx_o", kind |-> "Index"],
      [name |-> "idx_s", kind |-> "GinIndex"],
      [name |-> "idx_b", kind |-> "BrinIndex"] }

\* the declared index lists: no index twice
IndexLists ==
    { l \in SeqsUpTo(IndexObjects, MaxIndexes) :
        \A i, j \in 1..Len(l) : l[i] = l[j] => i = j }

IndexNames(l) == { l[i].name : i \in 1..Len(l) }

NoError == "none"

\* what schema_editor.create_model raises: the database's failure, or that
\* the relation already exists
CreateModelError(dberr) ==
    IF dberr # NoError THEN dberr
    ELSE IF tableExists THEN "ProgrammingError" ELSE NoError

\* line 99-100: the index list create_model sees
IndexesDuringCreate(indexes, create_indexes) ==
    IF ~create_indexes THEN <<>> ELSE indexes

\* the index list restored after create_model only, not in a finally clause
IndexesAfterCreate_OnSuccess(indexes, during, error) ==
    IF error = NoError THEN indexes ELSE during

\* lines 106-110: the finally clause
IndexesAfterCreate(indexes, during, error) == indexes

\* lines 104-105: except Exception: raise
RaisedByCreate(error) == error

Trail(entry) ==
    LET t == Append(schemaLast.trail, entry)
    IN IF Len(t) > MaxTrail THEN Tail(t) ELSE t

\* cls.create_table(create_indexes)
CreateTable(create_indexes, dberr) ==
    LET indexes == metaIndexes
        during == IndexesDuringCreate(indexes, create_indexes)
        error == CreateModelError(dberr)
    IN /\ tableExists' = IF error = NoError THEN TRUE ELSE tableExists
       /\ dbIndexes' = IF error = NoError THEN IndexNames(during) ELSE dbIndexes
       /\ metaIndexes' = IndexesAfterCreate(indexes, during, error)
       /\ schemaLast' =
            [op |-> "create_table", withIndexes |-> create_indexes,
             before |-> indexes, existed |-> tableExists, dbBefore |-> dbIndexes,
             dberr |-> dberr, raised |-> RaisedByCreate(error),
             trail |-> Trail(<<"create_table", RaisedByCreate(error)>>)]
       /\ UNCHANGED <<queryVars, countVars, cacheVars>>

\* what schema_editor.delete_model raises: DROP TABLE ... CASCADE of a
\* relation that does not exist is an error
DeleteModelError(dberr) ==
    IF dberr # NoError THEN dberr
    ELSE IF ~tableExists THEN "ProgrammingError" ELSE NoError

\* cls.delete_table(), lines 167-170
DeleteTable(dberr) ==
    LET error == DeleteModelError(dberr)
    IN /\ tableExists' = IF error = NoError THEN FALSE ELSE tableExists
       /\ dbIndexes' = IF error = NoError THEN {} ELSE dbIndexes
       /\ schemaLast' =
            [op |-> "delete_table", withIndexes |-> FALSE,
             before |-> metaIndexes, existed |-> tableExists, dbBefore |-> dbIndexes,
             dberr |-> dberr, raised |-> error,
             trail |-> Trail(<<"delete_table", error>>)]
       /\ UNCHANGED <<metaIndexes, queryVars, countVars, cacheVars>>

\* lines 138-144 without the else branch: whatever is no plain index is gin
IndexType_NoElse(index) == IF index.kind = "Index" THEN "btree" ELSE "gin"

\* lines 138-144: the index type of one index, or none
IndexType(index) ==
    IF index.kind = "Index" THEN "btree"
    ELSE IF index.kind = "GinIndex" THEN "gin" ELSE "unknown"

\* lines 137-165: the loop over the declared indexes from position i on, each
\* CREATE INDEX CONCURRENTLY committed as it is executed
RECURSIVE IndexBatch(_, _, _)
IndexBatch(indexes, i, existing) ==
    IF i > Len(indexes) THEN [indexes |-> existing, raised |-> NoError]
    ELSE IF IndexType(indexes[i]) = "unknown"
    THEN [indexes |-> existing, raised |-> "ValueError"]
    ELSE IF ~tableExists \/ indexes[i].name \in existing
    THEN [indexes |-> existing, raised |-> "ProgrammingError"]
    ELSE IndexBatch(indexes, i + 1, existing \cup {indexes[i].name})

\* cls.create_indexes()
CreateIndexes ==
    LET r == IndexBatch(metaIndexes, 1, dbIndexes)
    IN /\ dbIndexes' = r.indexes
       /\ schemaLast' =
            [op |-> "create_indexes", withIndexes |-> FALSE,
             before |-> metaIndexes, existed |-> tableExists, dbBefore |-> dbIndexes,
             dberr |-> NoError, raised |-> r.raised,
             trail |-> Trail(<<"create_indexes", r.raised>>)]
       /\ UNCHANGED <<metaIndexes, tableExists, queryVars, countVars, cacheVars>>

NoSchemaOp ==
    [op |-> "none", withIndexes |-> FALSE, before |-> <<>>, existed |-> FALSE,
     dbBefore |-> {}, dberr |-> NoError, raised |-> NoError, trail |-> <<>>]

DbErrors == { NoError, "OperationalError" }

(***************************************************************************)
(* The synthesis cache: Table.get_model (lines 399-442) and                *)
(* DYNAMIC_MODEL_REGISTRY (line 19).                                       *)
(***************************************************************************)
\* Table rows
MaxTables == 2
\* get_model calls
MaxGets == 3
\* changes of a Table row
MaxChanges == 1

\* class objects created by type(): at most one for each call
MaxSynth == MaxGets

TableIds == 1..MaxTables
Workers == {1, 2}

\* make_index_name (lines 85-88): a digest of the table, the index type and
\* the sorted field names
MakeIndexName(tid, index_type, fields) == <<tid, index_type, Range(fields)>>

\* lines 414-428: the indexes of the synthesized type
ModelIndexes(tid, meta) ==
    LET NotSoleOrdering(f) == meta.ordering # <<f>>
        filt == SelectSeq(meta.filtering, NotSoleOrdering)
    IN (IF Truthy(meta.ordering)
        THEN << [name |-> MakeIndexName(tid, "order", meta.ordering),
                 kind |-> "Index", fields |-> meta.ordering] >>
        ELSE <<>>)
       \o [i \in 1..Len(filt) |->
             [name |-> MakeIndexName(tid, "filter", <<filt[i]>>),
              kind |-> "Index", fields |-> <<filt[i]>>]]
       \o (IF Truthy(meta.search)
           THEN << [name |-> MakeIndexName(tid, "search", <<"search_data">>),
                    kind |-> "GinIndex", fields |-> <<"search_data">>] >>
           ELSE <<>>)

\* lines 407-440: the class type() builds; uid is the identity of the object
Synthesize(tid, meta, uid) ==
    [uid |-> uid,
     db_table |-> tid,
     fields |-> meta.fields \o <<"search_data">>,
     indexes |-> ModelIndexes(tid, meta),
     ordering |-> meta.ordering,
     extra |-> ModelExtra(meta)]

\* line 400 without the cache flag
IsCacheHit_AnyFlag(reg, tid, cache) == reg[tid] # <<>>

\* line 400: cache and self.id in DYNAMIC_MODEL_REGISTRY
IsCacheHit(reg, tid, cache) == cache /\ reg[tid] # <<>>

\* line 441 storing under another table's key
RegistryAfterStore_WrongKey(reg, tid, Model) ==
    [reg EXCEPT ![(tid % MaxTables) + 1] = <<Model>>]

\* line 441: DYNAMIC_MODEL_REGISTRY[self.id] = Model
RegistryAfterStore(reg, tid, Model) == [reg EXCEPT ![tid] = <<Model>>]

LogEntry(w, tid, cache, Model, synthesized, started) ==
    [w |-> w, tid |-> tid, cache |-> cache, ret |-> Model,
     synthesized |-> synthesized, started |-> started,
     ended |-> tableMeta[tid].version]

InFlight == { w \in Workers : wpc[w] # "idle" }

NoCall == [tid |-> 0, cache |-> FALSE, started |-> 0]
NoModel == <<>>

\* table.get_model(cache) run from beginning to end by one caller
GetModel(tid, cache) ==
    /\ InFlight = {}
    /\ Len(cacheLog) < MaxGets
    /\ IF IsCacheHit(registry, tid, cache)
       THEN /\ cacheLog' = Append(cacheLog,
                  LogEntry(1, tid, cache, registry[tid][1], FALSE,
                           tableMeta[tid].version))
            /\ UNCHANGED <<registry, nextUid>>
       ELSE /\ nextUid <= MaxSynth
            /\ LET Model == Synthesize(tid, tableMeta[tid].meta, nextUid)
               IN /\ registry' = RegistryAfterStore(registry, tid, Model)
                  /\ cacheLog' = Append(cacheLog,
                        LogEntry(1, tid, cache, Model, TRUE, tableMeta[tid].version))
            /\ nextUid' = nextUid + 1
    /\ UNCHANGED <<tableMeta, wpc, wcall, wmodel, queryVars, countVars, schemaVars>>

RECURSIVE SumVersions(_)
SumVersions(T) ==
    IF T = {} THEN 0
    ELSE LET t == CHOOSE x \in T : TRUE
         IN tableMeta[t].version + SumVersions(T \ {t})

\* edits of Table rows so far
TotalChanges == SumVersions(TableIds)

\* the Table row (or its Field rows) is edited
ChangeMeta(tid, meta) ==
    /\ TotalChanges < MaxChanges
    /\ tableMeta[tid].meta # meta
    /\ tableMeta' = [tableMeta EXCEPT ![tid] = [meta |-> meta, version |-> @.version + 1]]
    /\ UNCHANGED <<registry, nextUid, cacheLog, wpc, wcall, wmodel,
                   queryVars, countVars, schemaVars>>

\* a worker enters get_model
Call(w, tid, cache) ==
    /\ wpc[w] = "idle"
    /\ Len(cacheLog) + Cardinality(InFlight) < MaxGets
    /\ nextUid + Cardinality(InFlight) <= MaxSynth
    /\ wpc' = [wpc EXCEPT ![w] = "check"]
    /\ wcall' = [wcall EXCEPT ![w] =
                   [tid |-> tid, cache |-> cache, started |-> tableMeta[tid].version]]
    /\ UNCHANGED <<tableMeta, registry, nextUid, cacheLog, wmodel,
                   queryVars, countVars, schemaVars>>

\* lines 400-401: the lookup, and the return on a hit
Check(w) ==
    /\ wpc[w] = "check"
    /\ IF IsCacheHit(registry, wcall[w].tid, wcall[w].cache)
       THEN /\ cacheLog' = Append(cacheLog,
                  LogEntry(w, wcall[w].tid, wcall[w].cache,
                           registry[wcall[w].tid][1], FALSE, wcall[w].started))
            /\ wpc' = [wpc EXCEPT ![w] = "idle"]
            /\ wcall' = [wcall EXCEPT ![w] = NoCall]
       ELSE /\ wpc' = [wpc EXCEPT ![w] = "build"]
            /\ UNCHANGED <<cacheLog, wcall>>
    /\ UNCHANGED <<tableMeta, registry, nextUid, wmodel,
                   queryVars, countVars, schemaVars>>

\* lines 407-440: the class is built from the rows as they are now
Build(w) ==
    /\ wpc[w] = "build"
    /\ wmodel' = [wmodel EXCEPT ![w] =
                    <<Synthesize(wcall[w].tid, tableMeta[wcall[w].tid].meta, nextUid)>>]
    /\ nextUid' = nextUid + 1
    /\ wpc' = [wpc EXCEPT ![w] = "store"]
    /\ UNCHANGED <<tableMeta, registry, cacheLog, wcall,
                   queryVars, countVars, schemaVars>>

\* lines 441-442: the class is stored and returned
Store(w) ==
    /\ wpc[w] = "store"
    /\ registry' = RegistryAfterStore(registry, wcall[w].tid, wmodel[w][1])
    /\ cacheLog' = Append(cacheLog,
          LogEntry(w, wcall[w].tid, wcall[w].cache, wmodel[w][1], TRUE,
                   wcall[w].started))
    /\ wpc' = [wpc EXCEPT ![w] = "idle"]
    /\ wcall' = [wcall EXCEPT ![w] = NoCall]
    /\ wmodel' = [wmodel EXCEPT ![w] = NoModel]
    /\ UNCHANGED <<tableMeta, nextUid, queryVars, countVars, schemaVars>>

(***************************************************************************)
(* The initial state and the specifications.                               *)
(***************************************************************************)
QueryInit ==
    /\ qs = FreshQuery
    /\ result = FreshQuery
    /\ resultIsSelf = FALSE
    /\ pc = "idle"
    /\ request = NoRequest
    /\ pre = FreshQuery
    /\ delegated = NoDelegation

CountInit ==
    /\ rowsMatching = 0
    /\ rowsOther = 0
    /\ reltuples = 0
    /\ countLog = <<>>

SchemaInit ==
    /\ tableExists = FALSE
    /\ dbIndexes = {}
    /\ schemaLast = NoSchemaOp

CacheInit ==
    /\ registry = [t \in TableIds |-> <<>>]
    /\ nextUid = 1
    /\ cacheLog = <<>>
    /\ wpc = [w \in Workers |-> "idle"]
    /\ wcall = [w \in Workers |-> NoCall]
    /\ wmodel = [w \in Workers |-> NoModel]

\* the Table row of the end-to-end scenario: ordering name, filtering name
\* and age, search name
ScenarioMeta ==
    [fields |-> <<FName, FAge>>,
     ordering |-> <<FName>>, filtering |-> <<FName, FAge>>, search |-> <<FName>>]

ScenarioTables == [t \in TableIds |-> [meta |-> ScenarioMeta, version |-> 0]]

\* queries on a record type of any of the tables
Init ==
    /\ extra \in RecordTypes
    /\ QueryInit
    /\ CountInit
    /\ metaIndexes = ModelIndexes(1, ScenarioMeta)
    /\ SchemaInit
    /\ tableMeta = ScenarioTables
    /\ CacheInit

\* the query builder
Next ==
    \/ \E q \in QueryStrings : FilterByQuerystring(q)
    \/ Release
    \/ NewQuerySet

Spec == Init /\ [][Next]_vars

\* row counts of queries on the scenario's record type
CountQueryStrings ==
    { MkQuery(FALSE, <<>>, hs, se, fm) :
        hs \in BOOLEAN, se \in { <<"x">>, <<" ">> },
        fm \in FewFilterMaps \cup { [k \in {FName} |-> <<>>] } }

InitCount ==
    /\ extra = ModelExtra(ScenarioMeta)
    /\ QueryInit
    /\ CountInit
    /\ metaIndexes = ModelIndexes(1, ScenarioMeta)
    /\ SchemaInit
    /\ tableMeta = ScenarioTables
    /\ CacheInit

NextCount ==
    \/ \E q \in CountQueryStrings : FilterByQuerystring(q)
    \/ Release
    \/ NewQuerySet
    \/ \E statsFail \in BOOLEAN : Count(statsFail)
    \/ \E matching \in BOOLEAN : InsertRow(matching)
    \/ \E matching \in BOOLEAN : DeleteRow(matching)
    \/ AnalyseTable

SpecCount == InitCount /\ [][NextCount]_vars

\* the schema operations on a record type with any declared index list
InitSchema ==
    /\ extra = ModelExtra(ScenarioMeta)
    /\ QueryInit
    /\ CountInit
    /\ metaIndexes \in IndexLists
    /\ SchemaInit
    /\ tableMeta = ScenarioTables
    /\ CacheInit

NextSchema ==
    \/ \E ci \in BOOLEAN, dberr \in DbErrors : CreateTable(ci, dberr)
    \/ \E dberr \in DbErrors : DeleteTable(dberr)
    \/ CreateIndexes

SpecSchema == InitSchema /\ [][NextSchema]_vars

\* get_model called by one caller at a time
InitCache ==
    /\ extra = ModelExtra(ScenarioMeta)
    /\ QueryInit
    /\ CountInit
    /\ metaIndexes = ModelIndexes(1, ScenarioMeta)
    /\ SchemaInit
    /\ tableMeta = ScenarioTables
    /\ CacheInit

NextCache ==
    \/ \E tid \in TableIds, cache \in BOOLEAN : GetModel(tid, cache)
    \/ \E tid \in TableIds, m \in TableMetas : ChangeMeta(tid, m)

SpecCache == InitCache /\ [][NextCache]_vars

\* get_model called by two workers of one process, no lock between them
InitRace ==
    /\ extra = ModelExtra(ScenarioMeta)
    /\ QueryInit
    /\ CountInit
    /\ metaIndexes = ModelIndexes(1, ScenarioMeta)
    /\ SchemaInit
    /\ tableMeta = ScenarioTables
    /\ CacheInit

\* the table the two workers ask for
RaceTables == {1}

NextRace ==
    \/ \E w \in Workers, tid \in RaceTables, cache \in BOOLEAN : Call(w, tid, cache)
    \/ \E w \in Workers : Check(w)
    \/ \E w \in Workers : Build(w)
    \/ \E w \in Workers : Store(w)
    \/ \E tid \in RaceTables, m \in TableMetas : ChangeMeta(tid, m)

SpecRace == InitRace /\ [][NextRace]_vars

(***************************************************************************)
(* Properties of the query builder.                                        *)
(***************************************************************************)
\* the requested order-by list of the last call, as line 219 parses it
RequestedOrderBy == OrderByList(Pop(request, OrderByKey))

\* the search step of the last call ran: a search term on a type with
\* declared search fields
SearchRan == Truthy(Pop(request, SearchKey)) /\ Truthy(extra.search)

RankPart == IF SearchRan THEN <<SearchRankDesc>> ELSE <<>>

\* a directive without its descending marker, the leading "-"
MarkerStripped(f) == IF f # <<>> /\ Head(f) = "-" THEN Tail(f) ELSE f

\* declared ordering and filtering names, marker stripped, in lower case
DeclaredSortNames ==
    { Lower(MarkerStripped(f)) : f \in Range(extra.ordering \o extra.filtering) }

\* the requested entries whose field name is declared, in the requested
\* order, or the default ordering when there is none
ResolvedByName ==
    LET Survives(f) == Lower(MarkerStripped(f)) \in DeclaredSortNames
        kept == SelectSeq(RequestedOrderBy, Survives)
    IN IF kept # <<>> THEN kept ELSE extra.ordering

\* C1: the ordering directives a call applies are exactly the requested
\* entries whose field name (descending marker stripped, compared without
\* case) is in declared ordering or filtering, in the requested order, and
\* the declared default ordering when no requested entry survives.
C1_OrderingResolution ==
    pc = "returned" =>
        result.ordering = pre.ordering \o RankPart \o ResolvedByName

\* C2: with a search term on a type with search fields, the ordering of the
\* returned query is what the receiver had, then the descending search rank,
\* then the directives the ordering step resolved: neither the ordering step
\* nor the filters in between erase the search rank.
C2_OrderingAccumulates ==
    (pc = "returned" /\ SearchRan) =>
        /\ result.ordering =
              pre.ordering \o <<SearchRankDesc>>
                  \o OrderingAdded(RequestedOrderBy, extra)
        /\ "search_rank" \in result.annotations
        /\ SearchTokens(Pop(request, SearchKey)) \in result.searches

\* the end-to-end scenario: age__gte=18, order-by=-name, search=x
C2_Witness ==
    /\ pc = "returned"
    /\ extra = ModelExtra(ScenarioMeta)
    /\ pre = FreshQuery
    /\ request = MkQuery(TRUE, Desc(FName), TRUE, <<"x">>,
                         [k \in {KAgeGte} |-> <<"1", "8">>])
    /\ result.ordering = <<SearchRankDesc, Desc(FName)>>
    /\ result.filters = {[field |-> FAge, op |-> OpGte, value |-> <<"1", "8">>]}
    /\ result.searches = {{<<"x">>}}

ReservedKeys == {OrderByKey, SearchKey}

\* the keys other than the reserved ones whose value is not blank
NonBlankCandidates ==
    { k \in DOMAIN request \ ReservedKeys : Truthy(Strip(request[k])) }

\* the keys other than the reserved ones whose value is not empty
NonEmptyCandidates ==
    { k \in DOMAIN request \ ReservedKeys : request[k] # <<>> }

\* C9 as claimed: the keys handed to the filter processor are exactly the keys
\* other than order-by and search whose value is neither empty nor
\* whitespace only, and the processor is not invoked when none remains.
C9_BlankValuesDropped ==
    pc = "returned" =>
        /\ delegated.keys = NonBlankCandidates
        /\ delegated.invoked <=> NonBlankCandidates # {}

\* C9 as amended: the keys handed to the filter processor are exactly the keys
\* other than order-by and search whose value is not the empty string (a
\* whitespace-only value is kept); the reserved keys are never among them,
\* every filter clause added comes from one of these keys, and the processor
\* is not invoked when none remains.
C9_EmptyValuesDropped ==
    pc = "returned" =>
        /\ delegated.keys = NonEmptyCandidates
        /\ delegated.invoked <=> NonEmptyCandidates # {}
        /\ delegated.keys \cap ReservedKeys = {}
        /\ \A f \in result.filters \ pre.filters :
              \E k \in NonEmptyCandidates :
                  ParseFilterKey(k).field = f.field /\ request[k] = f.value
        /\ ~delegated.invoked => result.filters = pre.filters

\* search is given and is a declared filtering field, a whitespace-only value
\* was delegated and an empty one was dropped
C9_Witness ==
    /\ pc = "returned"
    /\ SearchKey \in DOMAIN request
    /\ SearchKey \in Range(extra.filtering)
    /\ \E k \in delegated.keys : request[k] = <<" ">>
    /\ \E k \in DOMAIN request \ delegated.keys : request[k] = <<>>

(***************************************************************************)
(* Properties of count().                                                  *)
(***************************************************************************)
\* C4: on one query object, every count() call after the first returns the
\* value of the first and makes no data access, whatever happened to the
\* table's rows and statistics in between.
C4_CountMemoized ==
    \A i \in 2..Len(countLog) :
        /\ countLog[i].outcome = "returned"
        /\ countLog[i].ret = countLog[1].ret
        /\ ~countLog[i].stats
        /\ ~countLog[i].exact

\* a second call returned a value that is neither the exact count nor the
\* planner's estimate any more
C4_Witness ==
    /\ Len(countLog) >= 2
    /\ countLog[2].ret # ExactCount(result)
    /\ countLog[2].ret # reltuples

\* C5: a count() that is not memoized reads the planner statistics exactly
\* when the query has no predicate; if that read fails it returns the exact
\* count and raises nothing; with a predicate (a search predicate included)
\* it returns the exact count and never reads the statistics.
C5_CountSource ==
    [][ (Len(countLog') = Len(countLog) + 1 /\ ~IsMemoized(result)) =>
          LET e == countLog'[Len(countLog')]
          IN /\ e.outcome = "returned"
             /\ result'.count = <<e.ret>>
             /\ IF HasWhere(result)
                THEN ~e.stats /\ e.exact /\ e.ret = ExactCount(result)
                ELSE /\ e.stats
                     /\ e.failed => (e.exact /\ e.ret = ExactCount(result))
                     /\ ~e.failed => (~e.exact /\ e.ret = reltuples) ]_vars

\* the statistics read failed and the exact count, which differs from the
\* estimate, was returned
C5_Witness ==
    \E i \in 1..Len(countLog) :
        /\ countLog[i].failed
        /\ countLog[i].exact
        /\ countLog[i].outcome = "returned"
        /\ countLog[i].ret # reltuples

(***************************************************************************)
(* Properties of the schema operations.                                    *)
(***************************************************************************)
\* C6: after create_table, with or without indexes, succeeded or failed, the
\* declared index list is the one before the call, and what create_model
\* raised is what the caller gets; without indexes the bare table is created.
C6_CreateTableRestores ==
    schemaLast.op = "create_table" =>
        /\ metaIndexes = schemaLast.before
        /\ schemaLast.raised =
              (IF schemaLast.dberr # NoError THEN schemaLast.dberr
               ELSE IF schemaLast.existed THEN "ProgrammingError" ELSE NoError)
        /\ schemaLast.raised = NoError =>
              /\ tableExists
              /\ dbIndexes = IF schemaLast.withIndexes
                             THEN IndexNames(schemaLast.before) ELSE {}
        /\ schemaLast.raised # NoError =>
              /\ tableExists = schemaLast.existed
              /\ dbIndexes = schemaLast.dbBefore

\* create_table(create_indexes=False) failed on a type with declared indexes
C6_Witness ==
    /\ schemaLast.op = "create_table"
    /\ ~schemaLast.withIndexes
    /\ schemaLast.raised # NoError
    /\ schemaLast.before # <<>>
    /\ metaIndexes = schemaLast.before

\* C7: create_table(), delete_table(), delete_table(): the second
\* delete_table succeeds and the table is absent.
C7_DropIdempotent ==
    ( /\ Len(schemaLast.trail) = 3
      /\ schemaLast.trail[1] = <<"create_table", NoError>>
      /\ schemaLast.trail[2] = <<"delete_table", NoError>>
      /\ schemaLast.trail[3][1] = "delete_table"
      /\ schemaLast.dberr = NoError )
    => (schemaLast.trail[3][2] = NoError /\ ~tableExists)

\* the kinds the claim calls recognized: the plain index and the GIN index
RecognizedKind(index) == index.kind \in {"Index", "GinIndex"}

HasUnknownIndex(l) == \E i \in 1..Len(l) : ~RecognizedKind(l[i])

\* C8: create_indexes on an existing table without any index of the batch,
\* when the declared list holds an index of an unrecognized kind at any
\* position: it fails with ValueError and no index of the batch exists.
C8_BatchAborted ==
    ( /\ schemaLast.op = "create_indexes"
      /\ schemaLast.existed
      /\ schemaLast.dbBefore \cap IndexNames(schemaLast.before) = {}
      /\ HasUnknownIndex(schemaLast.before) )
    => ( /\ schemaLast.raised = "ValueError"
         /\ dbIndexes \cap IndexNames(schemaLast.before) = {} )

FirstUnknown(l) == Min({ i \in 1..Len(l) : ~RecognizedKind(l[i]) })

\* C8 as amended: in that case create_indexes fails with ValueError when the
\* loop reaches the first index of an unrecognized kind: no index at or after
\* that position is created, and the indexes declared before it have been
\* created and remain.
C8_BatchStopsAtUnknown ==
    ( /\ schemaLast.op = "create_indexes"
      /\ schemaLast.existed
      /\ schemaLast.dbBefore \cap IndexNames(schemaLast.before) = {}
      /\ HasUnknownIndex(schemaLast.before) )
    => ( /\ schemaLast.raised = "ValueError"
         /\ dbIndexes \cap IndexNames(schemaLast.before) =
               IndexNames(SubSeq(schemaLast.before, 1,
                                 FirstUnknown(schemaLast.before) - 1)) )

\* the unrecognized index came second and the first index was created
C8_Witness ==
    /\ schemaLast.op = "create_indexes"
    /\ schemaLast.existed
    /\ schemaLast.dbBefore = {}
    /\ Len(schemaLast.before) >= 2
    /\ RecognizedKind(schemaLast.before[1])
    /\ ~RecognizedKind(schemaLast.before[2])
    /\ schemaLast.raised = "ValueError"
    /\ dbIndexes = {schemaLast.before[1].name}

(***************************************************************************)
(* Properties of the synthesis cache.                                      *)
(***************************************************************************)
\* earlier calls on the same table
Earlier(i) == { j \in 1..(i - 1) : cacheLog[j].tid = cacheLog[i].tid }
EarlierSynth(i) == { j \in Earlier(i) : cacheLog[j].synthesized }
SynthOf(tid) ==
    { i \in 1..Len(cacheLog) : cacheLog[i].tid = tid /\ cacheLog[i].synthesized }

\* C3: a call synthesizes exactly when it bypasses the cache or is the first
\* for its Table.id; any other call returns the type of the latest synthesis,
\* which is the first one while no call bypassed the cache, even when the
\* Table row changed; the registry holds the latest synthesized type.
C3_SynthesisCache ==
    /\ \A i \in 1..Len(cacheLog) :
          LET e == cacheLog[i]
          IN /\ e.synthesized <=> (~e.cache \/ Earlier(i) = {})
             /\ ~e.synthesized =>
                   /\ EarlierSynth(i) # {}
                   /\ e.ret = cacheLog[Max(EarlierSynth(i))].ret
             /\ (\A j \in Earlier(i) \cup {i} : cacheLog[j].cache) =>
                   e.ret = cacheLog[Min(Earlier(i) \cup {i})].ret
             /\ e.synthesized =>
                   \A j \in 1..(i - 1) : cacheLog[j].ret.uid # e.ret.uid
    /\ \A t \in TableIds :
          registry[t] = IF SynthOf(t) = {} THEN <<>>
                        ELSE <<cacheLog[Max(SynthOf(t))].ret>>

\* a cached call returned a type that no longer matches the Table row
C3_Witness ==
    \E i \in 1..Len(cacheLog) :
        /\ cacheLog[i].cache
        /\ ~cacheLog[i].synthesized
        /\ cacheLog[i].ret.extra # ModelExtra(tableMeta[cacheLog[i].tid].meta)

\* two cached calls on one table that both synthesized, the Table row being
\* the same from the start to the end of both
Racing(i, j) ==
    /\ i < j
    /\ cacheLog[i].tid = cacheLog[j].tid
    /\ cacheLog[i].cache /\ cacheLog[j].cache
    /\ cacheLog[i].synthesized /\ cacheLog[j].synthesized
    /\ cacheLog[i].started = cacheLog[i].ended
    /\ cacheLog[j].started = cacheLog[j].ended
    /\ cacheLog[i].started = cacheLog[j].started

\* the same table name, fields, indexes, ordering, filtering and search
Equivalent(A, B) == [A EXCEPT !.uid = 0] = [B EXCEPT !.uid = 0]

\* calls on the table of call j after call j, none of them synthesizing
LaterHits(j) ==
    { k \in (j + 1)..Len(cacheLog) :
        /\ cacheLog[k].tid = cacheLog[j].tid
        /\ \A h \in (j + 1)..k :
              cacheLog[h].tid = cacheLog[j].tid => ~cacheLog[h].synthesized }

\* C10: when two workers race on the first access of one Table.id and the
\* Table row does not change, both calls complete, the two types are distinct
\* objects that are equivalent, the registry holds one of the two, and every
\* later cached call returns the one the registry holds.
C10_BenignRace ==
    /\ \A i, j \in 1..Len(cacheLog) :
          Racing(i, j) =>
              /\ Equivalent(cacheLog[i].ret, cacheLog[j].ret)
              /\ cacheLog[i].ret.uid # cacheLog[j].ret.uid
              /\ SynthOf(cacheLog[j].tid) \subseteq 1..j =>
                    registry[cacheLog[j].tid]
                        \in {<<cacheLog[i].ret>>, <<cacheLog[j].ret>>}
              /\ \A k \in LaterHits(j) :
                    /\ cacheLog[k].ret \in {cacheLog[i].ret, cacheLog[j].ret}
                    /\ \A h \in LaterHits(j) : cacheLog[h].ret = cacheLog[k].ret
                    /\ SynthOf(cacheLog[j].tid) \subseteq 1..j =>
                          registry[cacheLog[j].tid] = <<cacheLog[k].ret>>
    /\ \A w \in Workers :
          /\ wpc[w] = "check" => ENABLED Check(w)
          /\ wpc[w] = "build" => ENABLED Build(w)
          /\ wpc[w] = "store" => ENABLED Store(w)

\* both racing calls returned and a third, cached call got the type the
\* registry holds
C10_Witness ==
    \E i, j, k \in 1..Len(cacheLog) :
        /\ Racing(i, j)
        /\ k \in LaterHits(j)
        /\ cacheLog[i].w # cacheLog[j].w
        /\ cacheLog[k].cache
        /\ registry[cacheLog[j].tid] = <<cacheLog[k].ret>>


(***************************************************************************)
(* Frame of filter_by_querystring.                                         *)
(***************************************************************************)
\* C11: filter_by_querystring does not modify the query object it is called
\* on: when a call has returned, the receiver's ordering, predicate and
\* annotations are what they were when the call began.
C11_ReceiverUnchanged ==
    (pc = "returned" /\ request # NoRequest)
    => ( /\ qs.ordering = pre.ordering
         /\ qs.searches = pre.searches
         /\ qs.filters = pre.filters
         /\ qs.annotations = pre.annotations )

====
